---- MODULE Spec2Model ----
(***************************************************************************)
(* A model of dwave.cloud.api.resources (the Solvers and Problems resource *)
(* clients) and of the exception-chain helpers of dwave.cloud.utils.        *)
(*                                                                         *)
(* A resource operation is one call of a method of Solvers or Problems.    *)
(* Its inputs are the method's arguments and the behaviour of the injected *)
(* session on the call the method makes: the session either raises (exc)   *)
(* or returns a response whose .json() is a JSON value (json).  A JSON      *)
(* object is a function from its keys to its values, a JSON array is a     *)
(* sequence.  The outcome of an operation is the request it sent, the      *)
(* number of session calls it made, the exception it raised (err, "none"   *)
(* when it returned) and the value it returned.                            *)
(***************************************************************************)
EXTENDS Integers, Sequences, FiniteSets, TLC

VARIABLES
    pc,         \* "idle": no call in progress; "returned": a call has ended
    op,         \* name of the method that was called last
    arg,        \* the argument of that call
    reply,      \* what the session did on the call: [exc, json]
    request,    \* the request the method sent (NoRequest when it sent none)
    calls,      \* number of session calls the method made
    err,        \* exception the method raised, "none" when it returned
    result,     \* value the method returned ("none" when it raised)
    submitted,  \* ids of the problems that submissions have returned so far
    cause,      \* exception -> its __cause__ (None when unset)
    context,    \* exception -> its __context__ (None when unset)
    mode,       \* consumer of the generator: "idle", "exception_chain", "is_caused_by"
    root,       \* the exception the traversal was started with
    clsinfo,    \* exception_types of is_caused_by (a set of class names)
    exception,  \* the generator's local variable `exception`
    gen,        \* generator position: "start", "suspended" (at yield), "finished"
    yielded,    \* the exceptions yielded so far, in order
    answer      \* value returned by is_caused_by, "pending" until it returns

resvars == <<pc, op, arg, reply, request, calls, err, result, submitted>>
excvars == <<cause, context, mode, root, clsinfo, exception, gen, yielded, answer>>
vars == <<pc, op, arg, reply, request, calls, err, result, submitted,
          cause, context, mode, root, clsinfo, exception, gen, yielded, answer>>

---------------------------------------------------------------------------
(* Bounds of the enumerated inputs. *)
MaxJobs == 2        \* longest job list given to submit_problems
MaxResp == 2        \* longest JSON array a response holds
MaxShortIds == 2    \* longest id list enumerated element by element
NExc == 3           \* number of exception objects on the heap
MaxYield == 5       \* yields after which a traversal is cut off (cyclic chains)

(* The cap of get_problem_statuses. *)
MaxIds == 1000

Ids == {"a", "b"}
SolverIds == {"s1"}

SeqsUpTo(S, n) == UNION {[1..k -> S] : k \in 0..n}

(* Id lists: every list of at most MaxShortIds ids, and the two lists       *)
(* around the cap (exactly MaxIds ids, and one more).                      *)
ShortIdLists == SeqsUpTo(Ids, MaxShortIds)
LongIdLists == {[i \in 1..MaxIds |-> "a"], [i \in 1..(MaxIds + 1) |-> "a"]}
IdLists == ShortIdLists \cup LongIdLists

(* Exceptions the session raises. *)
TransportErrors == {"TransportError", "NotFound"}

(* Elements of a listing or of a batch response: a status record, a status *)
(* without id (fails validation), an error record, and an object that is   *)
(* neither.                                                                *)
StatusObjs == {[id |-> i, status |-> "PENDING"] : i \in Ids}
RawObjs == StatusObjs \cup {[status |-> "PENDING"], [error_code |-> "400"], [id |-> "a"]}
RawLists == SeqsUpTo(RawObjs, MaxResp)

SolverObjs == {[id |-> "s1"], [name |-> "s1"]}
SolverLists == SeqsUpTo(SolverObjs, MaxResp)

AnswerObjs == {[format |-> "qp"], [data |-> "x"]}
Envelopes == {[answer |-> a] : a \in AnswerObjs}
             \cup {[answer |-> a, format |-> "bq"] : a \in AnswerObjs}
             \cup {[id |-> "a"]}

MessageLists == SeqsUpTo({[message |-> "m"]}, MaxResp)

Jobs == [data : {"d"}, params : {"p"}, solver : {"s1"}, type : {"ising", "qubo"}, label : {"None"}]
JobLists == SeqsUpTo(Jobs, MaxJobs)

ListParams == {[status |-> "PENDING"], [id |-> "a"], [id |-> "a", max_results |-> "1"]}

---------------------------------------------------------------------------
(* str.join *)
RECURSIVE JoinRange(_, _, _, _)
JoinRange(sep, xs, lo, hi) ==
    IF lo > hi THEN ""
    ELSE IF lo = hi THEN xs[lo]
    ELSE LET mid == (lo + hi) \div 2
         IN JoinRange(sep, xs, lo, mid) \o sep \o JoinRange(sep, xs, mid + 1, hi)

Join(sep, xs) == JoinRange(sep, xs, 1, Len(xs))

(* The record model: a record is built from the keys of a JSON object and  *)
(* construction fails when a required field is missing.                    *)
Required(model) ==
    CASE model \in {"ProblemStatus", "ProblemInitialStatus",
                    "ProblemStatusMaybeWithAnswer", "ProblemInfo"} -> {"id", "status"}
      [] model = "SolverConfiguration" -> {"id"}
      [] model = "ProblemAnswer" -> {"format"}
      [] model \in {"ProblemSubmitError", "ProblemCancelError"} -> {"error_code"}

Valid(model, s) == Required(model) \subseteq DOMAIN s

Construct(model, s) == [model |-> model, fields |-> s]

(* ProblemJob.json() *)
JobJson(p) ==
    "{data:" \o p.data \o ",params:" \o p.params \o ",solver:" \o p.solver
        \o ",type:" \o p.type \o ",label:" \o p.label \o "}"

NoRequest == [method |-> "none"]
NoKw == [k \in {} |-> ""]

Raised(req, n, e) == [request |-> req, calls |-> n, err |-> e, result |-> "none"]
Returned(req, n, v) == [request |-> req, calls |-> n, err |-> "none", result |-> v]

(* One call of self.session.get / post / delete: the request it sends, and  *)
(* the session's behaviour on it (exc raised, or json returned).            *)
session_call(method, path, kw, exc, json) ==
    [request |-> [method |-> method, path |-> path, kw |-> kw],
     calls |-> 1, exc |-> exc, json |-> json]

(* An exception of the session leaves the method as it is: no method has a  *)
(* try block.                                                              *)
Propagate(response) == Raised(response.request, response.calls, response.exc)

(* models.M built from one object s *)
DecodeOne(response, model, s) ==
    IF Valid(model, s)
    THEN Returned(response.request, response.calls, Construct(model, s))
    ELSE Raised(response.request, response.calls, "DecodingError")

(* the list comprehension building models.M from every s in statuses *)
DecodeList(response, model, statuses) ==
    IF \A i \in 1..Len(statuses) : Valid(model, statuses[i])
    THEN Returned(response.request, response.calls,
                  [i \in 1..Len(statuses) |-> Construct(model, statuses[i])])
    ELSE Raised(response.request, response.calls, "DecodingError")

---------------------------------------------------------------------------
(* Solvers *)

list_solvers(exc, json) ==
    LET response == session_call("GET", "remote/", NoKw, exc, json)
    IN IF response.exc # "none" THEN Propagate(response)
       ELSE DecodeList(response, "SolverConfiguration", response.json)

get_solver(solver_id, exc, json) ==
    LET response == session_call("GET", "remote/" \o solver_id, NoKw, exc, json)
    IN IF response.exc # "none" THEN Propagate(response)
       ELSE DecodeOne(response, "SolverConfiguration", response.json)

---------------------------------------------------------------------------
(* Problems: read operations *)

list_problems(params, exc, json) ==
    LET response == session_call("GET", "", [params |-> params], exc, json)
    IN IF response.exc # "none" THEN Propagate(response)
       ELSE DecodeList(response, "ProblemStatus", response.json)

get_problem(problem_id, exc, json) ==
    LET response == session_call("GET", problem_id, NoKw, exc, json)
    IN IF response.exc # "none" THEN Propagate(response)
       ELSE DecodeOne(response, "ProblemStatusMaybeWithAnswer", response.json)

(* get_problem_status taking the last element of the listing. *)
get_problem_status_last(problem_id, exc, json) ==
    LET params == [id |-> problem_id]
        response == session_call("GET", "", [params |-> params], exc, json)
    IN IF response.exc # "none" THEN Propagate(response)
       ELSE IF Len(response.json) = 0
            THEN Raised(response.request, response.calls, "IndexError")
            ELSE DecodeOne(response, "ProblemStatus", response.json[Len(response.json)])

(* get_problem_status listing without the id filter. *)
get_problem_status_unfiltered(problem_id, exc, json) ==
    LET response == session_call("GET", "", [params |-> NoKw], exc, json)
    IN IF response.exc # "none" THEN Propagate(response)
       ELSE IF Len(response.json) = 0
            THEN Raised(response.request, response.calls, "IndexError")
            ELSE DecodeOne(response, "ProblemStatus", response.json[1])

get_problem_status(problem_id, exc, json) ==
    LET params == [id |-> problem_id]
        response == session_call("GET", "", [params |-> params], exc, json)
    IN IF response.exc # "none" THEN Propagate(response)
       ELSE IF Len(response.json) = 0
            THEN Raised(response.request, response.calls, "IndexError")
            ELSE DecodeOne(response, "ProblemStatus", response.json[1])

(* get_problem_statuses testing the cap after the request was sent. *)
get_problem_statuses_late_check(problem_ids, exc, json) ==
    LET params == [id |-> Join(",", problem_ids)]
        response == session_call("GET", "", [params |-> params], exc, json)
    IN IF response.exc # "none" THEN Propagate(response)
       ELSE IF Len(problem_ids) > MaxIds
            THEN Raised(response.request, response.calls, "ValueError")
            ELSE DecodeList(response, "ProblemStatus", response.json)

(* get_problem_statuses refusing a list of exactly MaxIds ids. *)
get_problem_statuses_off_by_one(problem_ids, exc, json) ==
    IF Len(problem_ids) >= MaxIds
    THEN Raised(NoRequest, 0, "ValueError")
    ELSE LET params == [id |-> Join(",", problem_ids)]
             response == session_call("GET", "", [params |-> params], exc, json)
         IN IF response.exc # "none" THEN Propagate(response)
            ELSE DecodeList(response, "ProblemStatus", response.json)

get_problem_statuses(problem_ids, exc, json) ==
    IF Len(problem_ids) > MaxIds
    THEN Raised(NoRequest, 0, "ValueError")
    ELSE LET params == [id |-> Join(",", problem_ids)]
             response == session_call("GET", "", [params |-> params], exc, json)
         IN IF response.exc # "none" THEN Propagate(response)
            ELSE DecodeList(response, "ProblemStatus", response.json)

get_problem_info(problem_id, exc, json) ==
    LET response == session_call("GET", problem_id \o "/info", NoKw, exc, json)
    IN IF response.exc # "none" THEN Propagate(response)
       ELSE DecodeOne(response, "ProblemInfo", response.json)

(* get_problem_answer building the record from the whole envelope. *)
get_problem_answer_envelope(problem_id, exc, json) ==
    LET response == session_call("GET", problem_id \o "/answer", NoKw, exc, json)
    IN IF response.exc # "none" THEN Propagate(response)
       ELSE IF "answer" \notin DOMAIN response.json
            THEN Raised(response.request, response.calls, "KeyError")
            ELSE DecodeOne(response, "ProblemAnswer", response.json)

get_problem_answer(problem_id, exc, json) ==
    LET response == session_call("GET", problem_id \o "/answer", NoKw, exc, json)
    IN IF response.exc # "none" THEN Propagate(response)
       ELSE IF "answer" \notin DOMAIN response.json
            THEN Raised(response.request, response.calls, "KeyError")
            ELSE DecodeOne(response, "ProblemAnswer", response.json["answer"])

get_problem_messages(problem_id, exc, json) ==
    LET response == session_call("GET", problem_id \o "/messages", NoKw, exc, json)
    IN IF response.exc # "none" THEN Propagate(response)
       ELSE Returned(response.request, response.calls, response.json)

---------------------------------------------------------------------------
(* Problems: submission *)

(* submit_problem posting a second time when the first post raised. *)
submit_problem_retry(job, exc, json) ==
    LET body == [data |-> job.data, params |-> job.params, solver |-> job.solver,
                 type |-> job.type, label |-> job.label]
        first == session_call("POST", "", [json |-> body], exc, json)
        response == IF first.exc # "none"
                    THEN [session_call("POST", "", [json |-> body], exc, json)
                            EXCEPT !.calls = first.calls + 1]
                    ELSE first
    IN IF response.exc # "none" THEN Propagate(response)
       ELSE DecodeOne(response, "ProblemStatusMaybeWithAnswer", response.json)

submit_problem(job, exc, json) ==
    LET body == [data |-> job.data, params |-> job.params, solver |-> job.solver,
                 type |-> job.type, label |-> job.label]
        response == session_call("POST", "", [json |-> body], exc, json)
    IN IF response.exc # "none" THEN Propagate(response)
       ELSE DecodeOne(response, "ProblemStatusMaybeWithAnswer", response.json)

(* The comprehension of submit_problems keeping the accepted elements only. *)
submit_problems_decode_accepted(response, statuses) ==
    LET accepted == SelectSeq(statuses, LAMBDA s : "status" \in DOMAIN s)
    IN IF \A i \in 1..Len(statuses) :
             Valid(IF "status" \in DOMAIN statuses[i] THEN "ProblemInitialStatus"
                                                      ELSE "ProblemSubmitError", statuses[i])
       THEN Returned(response.request, response.calls,
                     [i \in 1..Len(accepted) |->
                        Construct("ProblemInitialStatus", accepted[i])])
       ELSE Raised(response.request, response.calls, "DecodingError")

(* The comprehension of submit_problems raising on a rejected element. *)
submit_problems_decode_raising(response, statuses) ==
    LET model(s) == IF "status" \in DOMAIN s THEN "ProblemInitialStatus"
                                             ELSE "ProblemSubmitError"
    IN IF \E i \in 1..Len(statuses) : "status" \notin DOMAIN statuses[i]
       THEN Raised(response.request, response.calls, "ProblemSubmitError")
       ELSE IF \A i \in 1..Len(statuses) : Valid(model(statuses[i]), statuses[i])
       THEN Returned(response.request, response.calls,
                     [i \in 1..Len(statuses) |->
                        Construct(model(statuses[i]), statuses[i])])
       ELSE Raised(response.request, response.calls, "DecodingError")

(* The list comprehension of submit_problems. *)
submit_problems_decode(response, statuses) ==
    LET model(s) == IF "status" \in DOMAIN s THEN "ProblemInitialStatus"
                                             ELSE "ProblemSubmitError"
    IN IF \A i \in 1..Len(statuses) : Valid(model(statuses[i]), statuses[i])
       THEN Returned(response.request, response.calls,
                     [i \in 1..Len(statuses) |->
                        Construct(model(statuses[i]), statuses[i])])
       ELSE Raised(response.request, response.calls, "DecodingError")

submit_problems(problems, exc, json) ==
    LET body == "[" \o Join(",", [i \in 1..Len(problems) |-> JobJson(problems[i])]) \o "]"
        kw == [data |-> body, headers |-> [ContentType |-> "application/json"]]
        response == session_call("POST", "", kw, exc, json)
    IN IF response.exc # "none" THEN Propagate(response)
       ELSE submit_problems_decode(response, response.json)

---------------------------------------------------------------------------
(* Problems: cancellation *)

cancel_problem(problem_id, exc, json) ==
    LET response == session_call("DELETE", problem_id \o "/", NoKw, exc, json)
    IN IF response.exc # "none" THEN Propagate(response)
       ELSE DecodeOne(response, "ProblemStatus", response.json)

(* The comprehension of cancel_problems giving the elements in reverse. *)
cancel_problems_decode_reversed(response, statuses) ==
    LET model(s) == IF "status" \in DOMAIN s THEN "ProblemStatus"
                                             ELSE "ProblemCancelError"
        n == Len(statuses)
    IN IF \A i \in 1..n : Valid(model(statuses[i]), statuses[i])
       THEN Returned(response.request, response.calls,
                     [i \in 1..n |->
                        Construct(model(statuses[n + 1 - i]), statuses[n + 1 - i])])
       ELSE Raised(response.request, response.calls, "DecodingError")

(* The list comprehension of cancel_problems. *)
cancel_problems_decode(response, statuses) ==
    LET model(s) == IF "status" \in DOMAIN s THEN "ProblemStatus"
                                             ELSE "ProblemCancelError"
    IN IF \A i \in 1..Len(statuses) : Valid(model(statuses[i]), statuses[i])
       THEN Returned(response.request, response.calls,
                     [i \in 1..Len(statuses) |->
                        Construct(model(statuses[i]), statuses[i])])
       ELSE Raised(response.request, response.calls, "DecodingError")

cancel_problems(problem_ids, exc, json) ==
    LET response == session_call("DELETE", "", [json |-> problem_ids], exc, json)
    IN IF response.exc # "none" THEN Propagate(response)
       ELSE cancel_problems_decode(response, response.json)

---------------------------------------------------------------------------
(* The resource client as a state machine: a caller calls one method at a  *)
(* time; the call runs to its end (Finish), the caller takes the outcome   *)
(* (Continue) and may call again.                                          *)

NoReply == [exc |-> "none", json |-> "none"]

ResInit ==
    /\ pc = "idle" /\ op = "none" /\ arg = "none" /\ reply = NoReply
    /\ request = NoRequest /\ calls = 0 /\ err = "none" /\ result = "none"
    /\ submitted = {}

ExcIdle ==
    /\ cause = <<>> /\ context = <<>> /\ mode = "idle" /\ root = 0
    /\ clsinfo = {} /\ exception = 0 /\ gen = "finished" /\ yielded = <<>>
    /\ answer = "pending"

Init == ResInit /\ ExcIdle

(* What the session may do on the call of a method: raise, or return one  *)
(* of the JSON values of Jsons.                                            *)
Replies(Jsons) ==
    {[exc |-> e, json |-> "none"] : e \in TransportErrors}
        \cup {[exc |-> "none", json |-> j] : j \in Jsons}

(* The call of method `name` with argument a, the session behaving as r,   *)
(* ended with outcome out.                                                 *)
Finish(name, a, r, out) ==
    /\ pc = "idle"
    /\ pc' = "returned"
    /\ op' = name
    /\ arg' = a
    /\ reply' = r
    /\ request' = out.request
    /\ calls' = out.calls
    /\ err' = out.err
    /\ result' = out.result

ListSolvers ==
    /\ \E r \in Replies(SolverLists) :
          Finish("list_solvers", "none", r, list_solvers(r.exc, r.json))
    /\ UNCHANGED <<submitted, excvars>>

GetSolver ==
    /\ \E id \in SolverIds, r \in Replies(SolverObjs) :
          Finish("get_solver", id, r, get_solver(id, r.exc, r.json))
    /\ UNCHANGED <<submitted, excvars>>

ListProblems ==
    /\ \E params \in ListParams, r \in Replies(RawLists) :
          Finish("list_problems", params, r, list_problems(params, r.exc, r.json))
    /\ UNCHANGED <<submitted, excvars>>

GetProblem ==
    /\ \E id \in Ids, r \in Replies(RawObjs) :
          Finish("get_problem", id, r, get_problem(id, r.exc, r.json))
    /\ UNCHANGED <<submitted, excvars>>

GetProblemStatus ==
    /\ \E id \in Ids, r \in Replies(RawLists) :
          Finish("get_problem_status", id, r, get_problem_status(id, r.exc, r.json))
    /\ UNCHANGED <<submitted, excvars>>

GetProblemStatuses ==
    /\ \E ids \in IdLists, r \in Replies(RawLists) :
          Finish("get_problem_statuses", ids, r, get_problem_statuses(ids, r.exc, r.json))
    /\ UNCHANGED <<submitted, excvars>>

GetProblemInfo ==
    /\ \E id \in Ids, r \in Replies(RawObjs) :
          Finish("get_problem_info", id, r, get_problem_info(id, r.exc, r.json))
    /\ UNCHANGED <<submitted, excvars>>

GetProblemAnswer ==
    /\ \E id \in Ids, r \in Replies(Envelopes) :
          Finish("get_problem_answer", id, r, get_problem_answer(id, r.exc, r.json))
    /\ UNCHANGED <<submitted, excvars>>

GetProblemMessages ==
    /\ \E id \in Ids, r \in Replies(MessageLists) :
          Finish("get_problem_messages", id, r, get_problem_messages(id, r.exc, r.json))
    /\ UNCHANGED <<submitted, excvars>>

(* The ids a submission returned: of the one status of submit_problem, of   *)
(* the accepted elements of submit_problems.                               *)
ReturnedIds ==
    IF err' # "none" THEN {}
    ELSE IF op' = "submit_problem" THEN {result'.fields.id}
    ELSE {result'[i].fields.id : i \in {k \in 1..Len(result') :
                                        result'[k].model = "ProblemInitialStatus"}}

SubmitProblem ==
    /\ \E job \in Jobs, r \in Replies(RawObjs) :
          Finish("submit_problem", job, r, submit_problem(job, r.exc, r.json))
    /\ submitted' = submitted \cup ReturnedIds
    /\ UNCHANGED excvars

SubmitProblems ==
    /\ \E problems \in JobLists, r \in Replies(RawLists) :
          Finish("submit_problems", problems, r, submit_problems(problems, r.exc, r.json))
    /\ submitted' = submitted \cup ReturnedIds
    /\ UNCHANGED excvars

CancelProblem ==
    /\ \E id \in Ids, r \in Replies(RawObjs) :
          Finish("cancel_problem", id, r, cancel_problem(id, r.exc, r.json))
    /\ UNCHANGED <<submitted, excvars>>

CancelProblems ==
    /\ \E ids \in ShortIdLists, r \in Replies(RawLists) :
          Finish("cancel_problems", ids, r, cancel_problems(ids, r.exc, r.json))
    /\ UNCHANGED <<submitted, excvars>>

(* The caller has taken the outcome. *)
Continue ==
    /\ pc = "returned"
    /\ pc' = "idle" /\ op' = "none" /\ arg' = "none" /\ reply' = NoReply
    /\ request' = NoRequest /\ calls' = 0 /\ err' = "none" /\ result' = "none"
    /\ UNCHANGED <<submitted, excvars>>

Next ==
    \/ ListSolvers \/ GetSolver
    \/ ListProblems \/ GetProblem \/ GetProblemStatus \/ GetProblemStatuses
    \/ GetProblemInfo \/ GetProblemAnswer \/ GetProblemMessages
    \/ SubmitProblem \/ SubmitProblems
    \/ CancelProblem \/ CancelProblems
    \/ Continue

Spec == Init /\ [][Next]_vars

---------------------------------------------------------------------------
(* dwave.cloud.utils: exception_chain, hasinstance, is_caused_by.          *)
(* Exception objects are 1..NExc, None is 0.  __cause__ and __context__    *)
(* of the older exceptions point at newer ones or are unset; those of the  *)
(* newest one may point back at the oldest, which closes a cycle (Python   *)
(* lets a program assign both attributes).                                 *)
(* Exception objects are truthy, None is the one falsy value.              *)

None == 0
Exc == 1..NExc

Targets(e) == IF e = NExc THEN {None, 1} ELSE {None} \cup ((e + 1)..NExc)
Heaps == {h \in [Exc -> 0..NExc] : \A e \in Exc : h[e] \in Targets(e)}

(* The class of an exception object and the classes it is an instance of.  *)
TypeOf(e) ==
    CASE e % 3 = 1 -> "ValueError"
      [] e % 3 = 2 -> "KeyError"
      [] OTHER -> "ZeroDivisionError"

Mro(t) ==
    CASE t = "ValueError" ->
            {"ValueError", "Exception", "BaseException", "object"}
      [] t = "KeyError" ->
            {"KeyError", "LookupError", "Exception", "BaseException", "object"}
      [] t = "ZeroDivisionError" ->
            {"ZeroDivisionError", "ArithmeticError", "Exception", "BaseException", "object"}

(* isinstance(e, class_or_tuple) *)
isinstance(e, class_or_tuple) == Mro(TypeOf(e)) \cap class_or_tuple # {}

ClsInfos ==
    {{"ValueError"}, {"LookupError"}, {"KeyError", "ZeroDivisionError"}, {"OSError"},
     {"BaseException", "OSError"}}

(* The loop body following __context__ before __cause__. *)
advance_context_first(e) ==
    IF context[e] # None THEN context[e]
    ELSE IF cause[e] # None THEN cause[e]
    ELSE None

(* The if / elif / else of the generator's loop body, after the yield: the  *)
(* exception to go on with, None when the generator returns.               *)
advance(e) ==
    IF cause[e] # None THEN cause[e]
    ELSE IF context[e] # None THEN context[e]
    ELSE None

(* One next() of the generator: from the start it tests `while exception`,  *)
(* from a yield it runs the rest of the loop body and tests again.         *)
exception_chain(position, e) ==
    LET e1 == IF position = "start" THEN e ELSE advance(e)
    IN IF e1 # None
       THEN [gen |-> "suspended", exception |-> e1]
       ELSE [gen |-> "finished", exception |-> e]

ChainDone ==
    \/ mode = "exception_chain" /\ gen = "finished"
    \/ mode = "is_caused_by" /\ answer # "pending"

ChainInit ==
    /\ ResInit
    /\ cause \in Heaps /\ context \in Heaps
    /\ mode = "idle" /\ root = None /\ clsinfo = {} /\ exception = None
    /\ gen = "finished" /\ yielded = <<>> /\ answer = "pending"

(* for e in exception_chain(r): the caller takes every exception yielded.  *)
CallExceptionChain ==
    /\ mode = "idle"
    /\ \E r \in 0..NExc :
          /\ root' = r
          /\ exception' = r
    /\ mode' = "exception_chain" /\ clsinfo' = {}
    /\ gen' = "start" /\ yielded' = <<>> /\ answer' = "pending"
    /\ UNCHANGED <<resvars, cause, context>>

(* is_caused_by(r, T) = hasinstance(exception_chain(r), T) *)
CallIsCausedBy ==
    /\ mode = "idle"
    /\ \E r \in 0..NExc, T \in ClsInfos :
          /\ root' = r
          /\ exception' = r
          /\ clsinfo' = T
    /\ mode' = "is_caused_by"
    /\ gen' = "start" /\ yielded' = <<>> /\ answer' = "pending"
    /\ UNCHANGED <<resvars, cause, context>>

(* The consumer asks the generator for its next exception.  any() of        *)
(* hasinstance returns True at the first instance it is given and False    *)
(* when the generator ends.                                                *)
GenNext ==
    /\ mode # "idle" /\ ~ChainDone
    /\ Len(yielded) < MaxYield
    /\ LET g == exception_chain(gen, exception)
       IN /\ gen' = g.gen
          /\ exception' = g.exception
          /\ yielded' = IF g.gen = "suspended" THEN Append(yielded, g.exception)
                                                ELSE yielded
          /\ answer' = IF mode # "is_caused_by" THEN answer
                       ELSE IF g.gen = "finished" THEN "False"
                       ELSE IF isinstance(g.exception, clsinfo) THEN "True"
                       ELSE answer
    /\ UNCHANGED <<resvars, cause, context, mode, root, clsinfo>>

(* The caller has the outcome of the traversal. *)
ChainReturn ==
    /\ ChainDone
    /\ mode' = "idle" /\ root' = None /\ clsinfo' = {} /\ exception' = None
    /\ gen' = "finished" /\ yielded' = <<>> /\ answer' = "pending"
    /\ UNCHANGED <<resvars, cause, context>>

ChainNext == CallExceptionChain \/ CallIsCausedBy \/ GenNext \/ ChainReturn

ChainSpec == ChainInit /\ [][ChainNext]_vars

---------------------------------------------------------------------------
(* Properties of the resource operations (checked under Spec).             *)

Ended(name) == pc = "returned" /\ op = name
ReturnedFrom(name) == pc = "returned" /\ op = name /\ err = "none"

SubmitVariant(s) == IF "status" \in DOMAIN s THEN "ProblemInitialStatus"
                                             ELSE "ProblemSubmitError"
CancelVariant(s) == IF "status" \in DOMAIN s THEN "ProblemStatus"
                                             ELSE "ProblemCancelError"

(* C1, as stated: whatever array the service answers with, submit_problems *)
(* returns exactly one element per submitted job.                          *)
C1_LengthIsJobCount ==
    ReturnedFrom("submit_problems") => Len(result) = Len(arg)

(* C1, amended: submit_problems returns one element per element of the     *)
(* response array, in the order of the response, the i-th built from the   *)
(* i-th raw object, as ProblemInitialStatus if and only if that object has *)
(* the key `status` and as ProblemSubmitError otherwise; the result has    *)
(* one element per job exactly when the service answered with one per job. *)
C1_SubmitBatchFollowsResponse ==
    ReturnedFrom("submit_problems") =>
        /\ Len(result) = Len(reply.json)
        /\ \A i \in 1..Len(reply.json) :
              /\ result[i].fields = reply.json[i]
              /\ result[i].model = "ProblemInitialStatus" <=> "status" \in DOMAIN reply.json[i]
              /\ result[i].model = "ProblemSubmitError" <=> "status" \notin DOMAIN reply.json[i]
        /\ (Len(result) = Len(arg) <=> Len(reply.json) = Len(arg))

C1_Witness ==
    /\ ReturnedFrom("submit_problems")
    /\ Len(arg) = 2 /\ Len(result) = 2
    /\ result[1].model = "ProblemInitialStatus"
    /\ result[2].model = "ProblemSubmitError"

(* C2: get_problem_statuses with more than 1000 ids fails with the         *)
(* validation error (the ValueError of the method) and no request is sent. *)
C2_CapBeforeRequest ==
    (Ended("get_problem_statuses") /\ Len(arg) > 1000) =>
        /\ err = "ValueError"
        /\ calls = 0
        /\ request = NoRequest

C2_Witness ==
    /\ Ended("get_problem_statuses")
    /\ Len(arg) = 1001
    /\ err = "ValueError" /\ calls = 0

(* C3, as stated: cancel_problems returns exactly one element per          *)
(* requested id.                                                           *)
C3_LengthIsIdCount ==
    ReturnedFrom("cancel_problems") => Len(result) = Len(arg)

(* C3, amended: cancel_problems returns one element per element of the     *)
(* response array, in the order of the response, each a ProblemStatus if   *)
(* its raw object has the key `status` and a ProblemCancelError otherwise; *)
(* no element of the response is dropped or reordered, and there is one    *)
(* element per requested id exactly when the service answered with one per *)
(* id.                                                                     *)
C3_CancelBatchFollowsResponse ==
    ReturnedFrom("cancel_problems") =>
        /\ DOMAIN result = DOMAIN reply.json
        /\ \A i \in DOMAIN result :
              result[i] = Construct(CancelVariant(reply.json[i]), reply.json[i])
        /\ (Len(result) # Len(arg) <=> Len(reply.json) # Len(arg))

C3_Witness ==
    /\ ReturnedFrom("cancel_problems")
    /\ arg = <<"a", "b">>
    /\ Len(result) = 2
    /\ result[1].model = "ProblemCancelError"
    /\ result[2].model = "ProblemStatus"
    /\ result[2].fields.id = "b"

(* C4, as stated: whenever the session call of submit_problems or          *)
(* cancel_problems succeeds the method returns normally; it raises only    *)
(* when the session raised (no client-side validation precedes the request *)
(* in either method).                                                      *)
C4_ReturnsWheneverTransportSucceeds ==
    (pc = "returned" /\ op \in {"submit_problems", "cancel_problems"}) =>
        (err = "none" <=> reply.exc = "none")

(* C4, amended: in submit_problems and cancel_problems an element without  *)
(* `status` is data and never by itself makes the call raise.  The call    *)
(* raises exactly when the session raised (that exception propagates       *)
(* unchanged) or when an element of the response fails the validation of   *)
(* the record it is built into (a decoding error, raised after a           *)
(* successful session call); otherwise it returns, also when every element *)
(* is an error object, and the variant of each element depends on that     *)
(* element alone.                                                          *)
C4_ItemErrorsAreData ==
    (pc = "returned" /\ op \in {"submit_problems", "cancel_problems"}) =>
        LET Variant(s) == IF op = "submit_problems" THEN SubmitVariant(s)
                                                    ELSE CancelVariant(s)
            Success == IF op = "submit_problems" THEN "ProblemInitialStatus"
                                                 ELSE "ProblemStatus"
        IN IF reply.exc # "none"
           THEN err = reply.exc
           ELSE /\ err \in {"none", "DecodingError"}
                /\ err = "none" <=>
                      \A i \in 1..Len(reply.json) :
                          Valid(Variant(reply.json[i]), reply.json[i])
                /\ err = "none" =>
                      \A i \in 1..Len(reply.json) :
                          result[i].model = Success <=> "status" \in DOMAIN reply.json[i]

C4_Witness ==
    /\ ReturnedFrom("submit_problems")
    /\ Len(reply.json) = 2
    /\ \A i \in 1..2 : "status" \notin DOMAIN reply.json[i]
    /\ \A i \in 1..2 : result[i].model = "ProblemSubmitError"

(* C5, as stated: get_problem_status fails with NotFound when the listing  *)
(* the service returned is empty.                                          *)
C5_EmptyListingIsNotFound ==
    (Ended("get_problem_status") /\ reply.exc = "none" /\ Len(reply.json) = 0)
        => err = "NotFound"

(* C5, amended: when the listing is empty get_problem_status fails with    *)
(* the IndexError of the lookup of element 0 (not with NotFound); when it  *)
(* is not empty the method decodes the first element only: it returns the  *)
(* ProblemStatus built from it, or fails with the decoding error if that   *)
(* element does not validate.                                              *)
C5_FirstOfListing ==
    (Ended("get_problem_status") /\ reply.exc = "none") =>
        IF Len(reply.json) = 0
        THEN err = "IndexError"
        ELSE IF Valid("ProblemStatus", reply.json[1])
        THEN err = "none" /\ result = Construct("ProblemStatus", reply.json[1])
        ELSE err = "DecodingError"

C5_Witness ==
    /\ Ended("get_problem_status")
    /\ reply.exc = "none" /\ Len(reply.json) = 0
    /\ err = "IndexError"

(* C6: every operation makes exactly one session call, or none when its    *)
(* own validation fails first, and an exception of the session leaves the  *)
(* operation at once, without a second call.                               *)
C6_SingleRoundTrip ==
    pc = "returned" =>
        /\ calls = IF err = "ValueError" THEN 0 ELSE 1
        /\ calls = 0 <=> request = NoRequest
        /\ (calls > 0 /\ reply.exc # "none") => err = reply.exc

C6_Witness ==
    /\ Ended("submit_problem")
    /\ reply.exc = "TransportError"
    /\ err = "TransportError" /\ calls = 1

(* C7, as stated: get_problem_status with an id that a submission returned *)
(* yields a status with that id.                                           *)
C7_StatusIdIsSubmittedId ==
    (ReturnedFrom("get_problem_status") /\ arg \in submitted)
        => result.fields.id = arg

(* C7, amended: get_problem_status with an id that a submission returned   *)
(* asks for the listing filtered by exactly that id and yields the status  *)
(* of the first element of the listing, so the id of the status is the     *)
(* submitted id exactly when the service lists that problem first.         *)
C7_StatusOfFilteredListing ==
    (ReturnedFrom("get_problem_status") /\ arg \in submitted) =>
        /\ request.method = "GET" /\ request.path = ""
        /\ request.kw = [params |-> [id |-> arg]]
        /\ result.fields.id = reply.json[1].id
        /\ (result.fields.id = arg <=> reply.json[1].id = arg)

C7_Witness ==
    /\ ReturnedFrom("get_problem_status")
    /\ arg \in submitted
    /\ result.fields.id = arg

(* C8: get_problem_answer builds the ProblemAnswer from the value under    *)
(* `answer` alone: whether it returns, and what it returns, is decided by  *)
(* that value, whatever else the envelope holds.                           *)
C8_AnswerUnwrapped ==
    (Ended("get_problem_answer") /\ reply.exc = "none"
        /\ "answer" \in DOMAIN reply.json) =>
        /\ err = "none" <=> Valid("ProblemAnswer", reply.json["answer"])
        /\ err = "none" => /\ result.model = "ProblemAnswer"
                           /\ result.fields = reply.json["answer"]

C8_Witness ==
    /\ ReturnedFrom("get_problem_answer")
    /\ DOMAIN reply.json = {"answer", "format"}
    /\ result.fields = [format |-> "qp"]

(* The comma-joined ids, by the ids one after the other. *)
RECURSIVE CommaJoined(_, _)
CommaJoined(ids, n) ==
    IF n = 0 THEN ""
    ELSE IF n = 1 THEN ids[1]
    ELSE CommaJoined(ids, n - 1) \o "," \o ids[n]

(* C9, as stated: get_problem_statuses returns exactly one ProblemStatus   *)
(* per requested id.                                                       *)
C9_LengthIsIdCount ==
    (ReturnedFrom("get_problem_statuses") /\ Len(arg) <= 1000)
        => Len(result) = Len(arg)

(* C9, amended: for at most 1000 ids get_problem_statuses sends one        *)
(* request whose single `id` parameter is the ids joined by commas, and    *)
(* returns one ProblemStatus per element of the listing the service        *)
(* returned, in the order of the listing; there is one status per          *)
(* requested id exactly when the service listed one per id.                *)
C9_StatusesFollowListing ==
    (Ended("get_problem_statuses") /\ Len(arg) <= 1000) =>
        /\ calls = 1
        /\ request.method = "GET" /\ request.path = ""
        /\ DOMAIN request.kw = {"params"} /\ DOMAIN request.kw.params = {"id"}
        /\ Len(arg) <= MaxShortIds + 1 =>
              request.kw.params.id = CommaJoined(arg, Len(arg))
        /\ err = "none" =>
              /\ Len(result) = Len(reply.json)
              /\ \A i \in 1..Len(reply.json) :
                    result[i] = Construct("ProblemStatus", reply.json[i])
              /\ (Len(result) = Len(arg) <=> Len(reply.json) = Len(arg))

C9_Witness ==
    /\ ReturnedFrom("get_problem_statuses")
    /\ Len(arg) = 1000
    /\ Len(result) = 1
    /\ request.kw.params.id # ""

---------------------------------------------------------------------------
(* Properties of the exception chain (checked under ChainSpec).            *)

(* The exception that follows e in its chain: __cause__ when it is set,    *)
(* __context__ when only that is set, None when neither is.                *)
Follows(e) ==
    CASE cause[e] # None -> cause[e]
      [] cause[e] = None /\ context[e] # None -> context[e]
      [] OTHER -> None

(* The first n exceptions of the chain of e. *)
RECURSIVE ChainOf(_, _)
ChainOf(e, n) ==
    IF e = None \/ n = 0 THEN <<>> ELSE <<e>> \o ChainOf(Follows(e), n - 1)

Range(s) == {s[i] : i \in 1..Len(s)}

(* C10: the traversal yields the exception it was given first and then the *)
(* exception that follows the one yielded last, and ends when none         *)
(* follows; on an acyclic chain it yields no exception twice and so ends;  *)
(* is_caused_by returns True if and only if an exception of the chain is   *)
(* an instance of exception_types.                                         *)
C10_ChainTraversal ==
    mode # "idle" =>
        LET chain == ChainOf(root, NExc + 1)
            acyclic == Len(chain) <= NExc
        IN /\ Len(yielded) <= MaxYield
           /\ yielded = ChainOf(root, Len(yielded))
           /\ gen = "suspended" => yielded # <<>> /\ exception = yielded[Len(yielded)]
           /\ gen = "finished" => yielded = chain /\ acyclic
           /\ acyclic => /\ Len(yielded) <= Len(chain)
                         /\ ChainDone \/ ENABLED GenNext
           /\ answer = "True" =>
                 /\ mode = "is_caused_by"
                 /\ \E e \in Range(chain) : isinstance(e, clsinfo)
           /\ answer = "False" =>
                 /\ mode = "is_caused_by" /\ gen = "finished"
                 /\ \A e \in Range(chain) : ~isinstance(e, clsinfo)

C10_Witness ==
    /\ mode = "is_caused_by" /\ answer = "True"
    /\ root # None /\ cause[root] # None /\ context[root] # None
    /\ cause[root] # context[root]
    /\ Len(yielded) = 2 /\ yielded[2] = cause[root]
    /\ ~isinstance(context[root], clsinfo)

====
